---- MODULE Spec2Model ----
(***************************************************************************)
(* Model of the CS2 stats Discord bot (src/index.js): the Steam id         *)
(* resolver extractSteamId, the stat lookup and the two formatting         *)
(* helpers, the derivation of the six metric groups, and the messageCreate *)
(* handler with its two sequential HTTPS fetches.                          *)
(*                                                                         *)
(* Strings are sequences of one-character strings, so that the regular     *)
(* expressions of the source are computed on characters.                   *)
(***************************************************************************)
EXTENDS Integers, Sequences, FiniteSets

VARIABLES
  input,    \* extractSteamId: the argument
  result,   \* extractSteamId: the value returned (with the patterns tried)
  rpc,      \* extractSteamId: "in" before the call, "out" after it
  num,      \* formatNumber, formatTime: the argument
  text,     \* formatNumber, formatTime: the string returned
  fpc,      \* "in" before the call, "number" or "time" after it
  stats,    \* statsData.playerstats.stats: an array of {name, value}
  name,     \* findStat: the argument
  value,    \* findStat: the number returned
  embed,    \* the values of the six embed fields built from stats
  dpc,      \* "in" before the call, "found" or "derived" after it
  content,    \* message.content
  authorBot,  \* message.author.bot
  hpc,        \* the handler: "start", "await1", "await2", "done"
  steamId,    \* the handler's steamId
  request,    \* the https.get of the current httpsGet: "none", "sent",
              \* "receiving", "ended", "failed"
  data,       \* httpsGet's data: the body received
  promise,    \* the promise of the current httpsGet, with its value
  statsData,  \* the handler's statsData
  replies,    \* the message.reply calls made, in order
  alive       \* FALSE once an uncaught exception has ended the process

resolverVars == <<input, result, rpc>>
formatVars == <<num, text, fpc>>
deriveVars == <<stats, name, value, embed, dpc>>
handlerVars ==
  <<content, authorBot, hpc, steamId, request, data, promise, statsData, replies, alive>>

----------------------------------------------------------------------------
(* Characters and literals *)

Digits == {"0", "1", "2", "3", "4", "5", "6", "7", "8", "9"}

\* The length of a Steam64 id: \d{17} at src/index.js:70, 76, 78, 86.
IdLen == 17

\* "steamcommunity.com/"
HostLit ==
  <<"s","t","e","a","m","c","o","m","m","u","n","i","t","y",".","c","o","m","/">>

\* "steamcommunity.com/profiles/" : the literal part of patterns 1 and 3.
ProfilesLit == HostLit \o <<"p","r","o","f","i","l","e","s","/">>

\* "steamcommunity.com/id/" : the literal part of patterns 2 and 4.
IdLit == HostLit \o <<"i","d","/">>

Min(S) == CHOOSE x \in S : \A y \in S : x <= y

----------------------------------------------------------------------------
(* extractSteamId, src/index.js:68-95 *)

\* A regular-expression match: found, and capture group 1.
NoMatch == [found |-> FALSE, cap |-> <<>>]
Matched(c) == [found |-> TRUE, cap |-> c]

\* The literal lit occurs in s at position i.
MatchAt(lit, s, i) ==
  /\ i + Len(lit) - 1 <= Len(s)
  /\ \A k \in 1..Len(lit) : s[i + k - 1] = lit[k]

\* \d{n} matches in s at position j.
DigitRunAt(s, j, n) ==
  /\ j + n - 1 <= Len(s)
  /\ \A k \in 0..(n - 1) : s[j + k] \in Digits

\* /^\d{17}$/.test(s)
\* (IsSteam64_Unanchored: the test without its $ anchor.)
IsSteam64_Unanchored(s) == DigitRunAt(s, 1, IdLen)
IsSteam64(s) == Len(s) = IdLen /\ DigitRunAt(s, 1, IdLen)

\* The last position of the greedy run [^\/]+ that starts at j (j - 1: no run).
RECURSIVE NonSlashEnd(_, _)
NonSlashEnd(s, j) ==
  IF j <= Len(s) /\ s[j] # "/" THEN NonSlashEnd(s, j + 1) ELSE j - 1

\* input.match(/steamcommunity\.com\/profiles\/(\d{17})/): the leftmost match.
MatchProfiles(s) ==
  LET L == Len(ProfilesLit)
      at == {i \in 1..Len(s) : MatchAt(ProfilesLit, s, i) /\ DigitRunAt(s, i + L, IdLen)}
  IN  IF at = {} THEN NoMatch
      ELSE Matched(SubSeq(s, Min(at) + L, Min(at) + L + IdLen - 1))

\* input.match(/steamcommunity\.com\/id\/([^\/]+)/): the leftmost match, the
\* capture greedy.
MatchId(s) ==
  LET L == Len(IdLit)
      at == {i \in 1..Len(s) : MatchAt(IdLit, s, i) /\ NonSlashEnd(s, i + L) >= i + L}
  IN  IF at = {} THEN NoMatch
      ELSE Matched(SubSeq(s, Min(at) + L, NonSlashEnd(s, Min(at) + L)))

\* input.match(/steamcommunity\.com\/id\/([^\/]+)\//): as MatchId, and a "/"
\* follows the capture (a shorter capture is followed by a non-slash character,
\* so backtracking finds nothing more).
MatchIdSlash(s) ==
  LET L == Len(IdLit)
      at == {i \in 1..Len(s) :
               /\ MatchAt(IdLit, s, i)
               /\ NonSlashEnd(s, i + L) >= i + L
               /\ NonSlashEnd(s, i + L) < Len(s)}
  IN  IF at = {} THEN NoMatch
      ELSE Matched(SubSeq(s, Min(at) + L, NonSlashEnd(s, Min(at) + L)))

\* The urlPatterns array, in its order.
\* (urlPatterns_AliasFirst: the first two patterns swapped.)
urlPatterns_AliasFirst == <<"id", "profiles", "profiles", "idslash">>
urlPatterns == <<"profiles", "id", "profiles", "idslash">>

PatternMatch(p, s) ==
  CASE p = "profiles" -> MatchProfiles(s)
    [] p = "id"       -> MatchId(s)
    [] p = "idslash"  -> MatchIdSlash(s)

\* match[1] && /^\d{17}$/.test(match[1])
\* (IsDirectId_AnyCapture: the test of the capture left out.)
IsDirectId_AnyCapture(cap) == cap # <<>>
IsDirectId(cap) == cap # <<>> /\ IsSteam64(cap)

\* What extractSteamId returns: a string or null; tried counts the URL patterns
\* input.match was called with.
IdResult(s, n) == [kind |-> "id", value |-> s, tried |-> n]
NullResult(n) == [kind |-> "null", value |-> <<>>, tried |-> n]

\* for (const pattern of urlPatterns) { ... } return null;
RECURSIVE TryPatterns(_, _)
TryPatterns(s, k) ==
  IF k > Len(urlPatterns) THEN NullResult(k - 1)
  ELSE LET m == PatternMatch(urlPatterns[k], s)
       IN  IF m.found
           THEN IF IsDirectId(m.cap) THEN IdResult(m.cap, k) ELSE NullResult(k)
           ELSE TryPatterns(s, k + 1)

\* (ExtractRun_LoopFirst: the 17-digit test made after the loop.)
ExtractRun_LoopFirst(s) ==
  LET r == TryPatterns(s, 1)
  IN  IF r.kind = "null" /\ IsSteam64(s) THEN IdResult(s, r.tried) ELSE r
ExtractRun(s) == IF IsSteam64(s) THEN IdResult(s, 0) ELSE TryPatterns(s, 1)

\* The returned value alone: what the caller sees.
Returned(r) == [kind |-> r.kind, value |-> r.value]
extractSteamId(s) == Returned(ExtractRun(s))

----------------------------------------------------------------------------
(* formatNumber and formatTime, src/index.js:205-222 *)

DigitChar == <<"0", "1", "2", "3", "4", "5", "6", "7", "8", "9">>

\* Number.prototype.toString of a non-negative integer (below 1e21).
RECURSIVE toString(_)
toString(n) ==
  IF n < 10 THEN <<DigitChar[n + 1]>>
  ELSE toString(n \div 10) \o <<DigitChar[(n % 10) + 1]>>

\* \w of a regular expression.
WordChars ==
  Digits \cup {"_"}
  \cup {"a","b","c","d","e","f","g","h","i","j","k","l","m",
        "n","o","p","q","r","s","t","u","v","w","x","y","z"}
  \cup {"A","B","C","D","E","F","G","H","I","J","K","L","M",
        "N","O","P","Q","R","S","T","U","V","W","X","Y","Z"}

\* \B between s[i] and s[i + 1] (0 <= i <= Len(s)): not a word boundary.
NonBoundary(s, i) ==
  LET before == i >= 1 /\ s[i] \in WordChars
      after == i < Len(s) /\ s[i + 1] \in WordChars
  IN  before = after

\* /\B(?=(\d{3})+(?!\d))/ matches between s[i] and s[i + 1].
\* (CommaAt_NoBoundary: the expression without its \B.)
CommaAt_NoBoundary(s, i) ==
  \E k \in 1..((Len(s) - i) \div 3) :
    /\ DigitRunAt(s, i + 1, 3 * k)
    /\ (i + 3 * k = Len(s) \/ s[i + 3 * k + 1] \notin Digits)
CommaAt(s, i) ==
  /\ NonBoundary(s, i)
  /\ \E k \in 1..((Len(s) - i) \div 3) :
       /\ DigitRunAt(s, i + 1, 3 * k)
       /\ (i + 3 * k = Len(s) \/ s[i + 3 * k + 1] \notin Digits)

\* s.replace(/\B(?=(\d{3})+(?!\d))/g, ","): a comma at every match, from
\* position i on (the matches are empty, so every position is tried).
RECURSIVE InsertCommas(_, _)
InsertCommas(s, i) ==
  IF i > Len(s) THEN <<>>
  ELSE (IF CommaAt(s, i) THEN <<",">> ELSE <<>>)
       \o (IF i < Len(s) THEN <<s[i + 1]>> ELSE <<>>)
       \o InsertCommas(s, i + 1)

\* const formatNumber = (num) => num.toString().replace(..., ",")
formatNumber(n) == InsertCommas(toString(n), 0)

SecondsPerHour == 3600
HoursPerDay == 24

\* const formatTime = (seconds) => { ... }
\* (formatTime_StrictDay: the test hours > 24 in place of days > 0.)
formatTime_StrictDay(seconds) ==
  LET hours == seconds \div SecondsPerHour
      days == hours \div HoursPerDay
      remainingHours == hours % HoursPerDay
  IN  IF hours > HoursPerDay
      THEN toString(days) \o <<"d", " ">> \o toString(remainingHours) \o <<"h">>
      ELSE toString(hours) \o <<"h">>
formatTime(seconds) ==
  LET hours == seconds \div SecondsPerHour
      days == hours \div HoursPerDay
      remainingHours == hours % HoursPerDay
  IN  IF days > 0
      THEN toString(days) \o <<"d", " ">> \o toString(remainingHours) \o <<"h">>
      ELSE toString(hours) \o <<"h">>

----------------------------------------------------------------------------
(* findStat and the derived statistics, src/index.js:195-198, 224-281 *)

\* const findStat = (name) => { const stat = stats.find((s) => s.name === name);
\*                              return stat ? stat.value : 0; }
\* (findStat_Index: findIndex in place of find.)
findStat_Index(st, n) ==
  LET at == {i \in 1..Len(st) : st[i].name = n}
  IN  IF at = {} THEN -1 ELSE Min(at) - 1
findStat(st, n) ==
  LET at == {i \in 1..Len(st) : st[i].name = n}
  IN  IF at = {} THEN 0 ELSE st[Min(at)].value

\* A JavaScript number that is the quotient of two non-negative integers:
\* finite n / d, or NaN (0 / 0), or Infinity (n / 0). "throw" stands for a
\* raised error; the division of the source never raises one.
Finite(n, d) == [kind |-> "finite", n |-> n, d |-> d]
NaN == [kind |-> "NaN", n |-> 0, d |-> 0]
Infinity == [kind |-> "Infinity", n |-> 0, d |-> 0]
Throw == [kind |-> "throw", n |-> 0, d |-> 0]

\* a / b
\* (Divide_Guarded: a division that raises on a zero denominator.)
Divide_Guarded(a, b) == IF b = 0 THEN Throw ELSE Finite(a, b)
Divide(a, b) ==
  IF b = 0 THEN (IF a = 0 THEN NaN ELSE Infinity) ELSE Finite(a, b)

\* x * m
Times(x, m) == IF x.kind = "finite" THEN Finite(x.n * m, x.d) ELSE x

RECURSIVE Pow10(_)
Pow10(k) == IF k = 0 THEN 1 ELSE 10 * Pow10(k - 1)

RECURSIVE PadLeft(_, _)
PadLeft(s, f) == IF Len(s) >= f THEN s ELSE PadLeft(<<"0">> \o s, f)

\* x.toFixed(f), f >= 1: "NaN" and "Infinity" as they are, a finite value
\* rounded to f decimals (the quotient is taken exactly and a tie rounds up,
\* where the source rounds the nearest double).
toFixed(x, f) ==
  CASE x.kind = "NaN" -> <<"N", "a", "N">>
    [] x.kind = "Infinity" -> <<"I", "n", "f", "i", "n", "i", "t", "y">>
    [] x.kind = "throw" -> <<>>
    [] x.kind = "finite" ->
         LET scaled == (x.n % x.d) * Pow10(f)
             q == (x.n \div x.d) * Pow10(f) + (scaled \div x.d)
                  + (IF 2 * (scaled % x.d) >= x.d THEN 1 ELSE 0)
         IN  toString(q \div Pow10(f)) \o <<".">>
             \o PadLeft(toString(q % Pow10(f)), f)

NoEmbed == [threw |-> TRUE]

\* generalStats ... mapStats (lines 224-281), each value as the embed shows it
\* (lines 292-355): formatTime, formatNumber, or the toFixed string.
Derive(st) ==
  LET F(n) == findStat(st, n)
      accuracy == Times(Divide(F("total_shots_hit"), F("total_shots_fired")), 100)
      kdRatio == Divide(F("total_kills"), F("total_deaths"))
      winRate == Times(Divide(F("total_matches_won"), F("total_matches_played")), 100)
  IN  IF "throw" \in {accuracy.kind, kdRatio.kind, winRate.kind} THEN NoEmbed
      ELSE
      [threw |-> FALSE,
       general |->
         [timePlayed |-> formatTime(F("total_time_played")),
          bombsPlanted |-> formatNumber(F("total_planted_bombs")),
          bombsDefused |-> formatNumber(F("total_defused_bombs")),
          damageDone |-> formatNumber(F("total_damage_done")),
          moneyEarned |-> formatNumber(F("total_money_earned"))],
       combat |->
         [kills |-> formatNumber(F("total_kills")),
          deaths |-> formatNumber(F("total_deaths")),
          kdRatio |-> toFixed(kdRatio, 2),
          accuracy |-> toFixed(accuracy, 1),
          headshots |-> formatNumber(F("total_kills_headshot"))],
       match |->
         [matchesPlayed |-> formatNumber(F("total_matches_played")),
          matchesWon |-> formatNumber(F("total_matches_won")),
          winRate |-> toFixed(winRate, 1),
          mvps |-> formatNumber(F("total_mvps"))],
       weapon |->
         [shotsFired |-> formatNumber(F("total_shots_fired")),
          shotsHit |-> formatNumber(F("total_shots_hit")),
          knifeKills |-> formatNumber(F("total_kills_knife")),
          grenadeKills |-> formatNumber(F("total_kills_hegrenade"))],
       popular |->
         [ak |-> formatNumber(F("total_kills_ak47")),
          m4a1s |-> formatNumber(F("total_kills_m4a1")),
          awp |-> formatNumber(F("total_kills_awp")),
          glock |-> formatNumber(F("total_kills_glock")),
          usps |-> formatNumber(F("total_kills_hkp2000"))],
       maps |->
         [dust2 |-> formatNumber(F("total_wins_map_de_dust2")),
          inferno |-> formatNumber(F("total_wins_map_de_inferno")),
          nuke |-> formatNumber(F("total_wins_map_de_nuke")),
          vertigo |-> formatNumber(F("total_wins_map_de_vertigo")),
          train |-> formatNumber(F("total_wins_map_de_train"))]]

\* The counter names the handler looks up, in the order of lines 226-280.
CounterNames ==
  <<"total_time_played", "total_planted_bombs", "total_defused_bombs",
    "total_damage_done", "total_money_earned",
    "total_kills", "total_deaths", "total_kills_headshot",
    "total_shots_hit", "total_shots_fired",
    "total_matches_won", "total_matches_played", "total_mvps",
    "total_kills_knife", "total_kills_hegrenade",
    "total_kills_ak47", "total_kills_m4a1", "total_kills_awp",
    "total_kills_glock", "total_kills_hkp2000",
    "total_wins_map_de_dust2", "total_wins_map_de_inferno",
    "total_wins_map_de_nuke", "total_wins_map_de_vertigo",
    "total_wins_map_de_train">>

----------------------------------------------------------------------------
(* httpsGet and the messageCreate handler, src/index.js:44-56, 97-369 *)

\* A response body. "html": text that is not JSON (an error page); "stats":
\* the JSON of GetUserStatsForGame, with or without playerstats; "summary":
\* the JSON of GetPlayerSummaries, with or without response, players an array.
NoBody == [kind |-> "none"]
HtmlBody == [kind |-> "html"]
StatsBody(has, st) == [kind |-> "stats", playerstats |-> has, stats |-> st]
SummaryBody(has, ps) == [kind |-> "summary", response |-> has, players |-> ps]

\* JSON.parse(data) throws a SyntaxError on text that is not JSON.
ParseThrows(b) == b.kind = "html"

\* A promise: pending, resolved with a value, or rejected.
NoPromise == [state |-> "none", value |-> NoBody]
Pending == [state |-> "pending", value |-> NoBody]
Resolved(v) == [state |-> "resolved", value |-> v]
Rejected == [state |-> "rejected", value |-> NoBody]

----------------------------------------------------------------------------
(* Inputs of the resolver *)

\* The longest alias enumerated over AliasAlphabet.
MaxAlias == 3
\* Digit runs of IdLen - MaxPad .. IdLen + MaxPad digits are tried.
MaxPad == 1

RECURSIVE SeqsUpTo(_, _)
SeqsUpTo(A, n) ==
  IF n = 0 THEN {<<>>}
  ELSE LET shorter == SeqsUpTo(A, n - 1)
       IN  shorter \cup {Append(s, a) : s \in {t \in shorter : Len(t) = n - 1}, a \in A}

\* "76561198012345678", the example id of the help text, continued cyclically.
SampleDigits == <<"7","6","5","6","1","1","9","8","0","1","2","3","4","5","6","7","8">>
DigitRun(n) == [k \in 1..n |-> SampleDigits[((k - 1) % IdLen) + 1]]
OtherId == [k \in 1..IdLen |-> "1"]
DigitRuns == {DigitRun(n) : n \in (IdLen - MaxPad)..(IdLen + MaxPad)}

AliasAlphabet == {"a", "7", " "}
Aliases ==
  (SeqsUpTo(AliasAlphabet, MaxAlias) \ {<<>>}) \cup DigitRuns
  \cup {d \o <<"a">> : d \in DigitRuns} \cup {<<"a">> \o d : d \in DigitRuns}

HttpsLit == <<"h","t","t","p","s",":","/","/">>
Prefixes == {<<>>, HttpsLit, <<"x", " ">>}
Tails == {<<>>, <<"/">>, <<"/", "x">>, <<" ">>}

NotASteamId == <<"n","o","t"," ","a"," ","s","t","e","a","m"," ","i","d">>
TooShort == <<"1","2","3","4","5">>
Unrecognized == {NotASteamId, TooShort, <<>>, IdLit, IdLit \o <<"/">>, ProfilesLit}

ProfileInputs == {p \o ProfilesLit \o d \o t : p \in Prefixes, d \in DigitRuns, t \in Tails}
AliasInputs == {p \o IdLit \o a \o t : p \in Prefixes, a \in Aliases, t \in Tails}
BareInputs == {p \o d \o t : p \in {<<>>, <<" ">>}, d \in DigitRuns, t \in {<<>>, <<" ">>}}
BothInputs ==
  {HttpsLit \o IdLit \o a \o <<"/">> \o ProfilesLit \o OtherId \o t :
     a \in {<<"a">>, DigitRun(IdLen)}, t \in Tails}
  \cup
  {HttpsLit \o ProfilesLit \o OtherId \o <<" ">> \o IdLit \o a \o t :
     a \in {<<"a">>, DigitRun(IdLen)}, t \in Tails}

ResolverInputs ==
  ProfileInputs \cup AliasInputs \cup BareInputs \cup BothInputs \cup Unrecognized

----------------------------------------------------------------------------
(* The parts of the state a specification does not use stay idle *)

vars == <<resolverVars, formatVars, deriveVars, handlerVars>>

IdleResolver == input = <<>> /\ result = NullResult(0) /\ rpc = "idle"
IdleFormat == num = 0 /\ text = <<>> /\ fpc = "idle"
IdleDerive ==
  stats = <<>> /\ name = "" /\ value = 0 /\ embed = NoEmbed /\ dpc = "idle"
IdleHandler ==
  /\ content = <<>>
  /\ authorBot = FALSE
  /\ hpc = "idle"
  /\ steamId = Returned(NullResult(0))
  /\ request = "none"
  /\ data = NoBody
  /\ promise = NoPromise
  /\ statsData = NoBody
  /\ replies = <<>>
  /\ alive = TRUE

----------------------------------------------------------------------------
(* The resolver on its own: one call of extractSteamId per behaviour *)

InitResolve ==
  /\ input \in ResolverInputs
  /\ result = NullResult(0)
  /\ rpc = "in"
  /\ IdleFormat
  /\ IdleDerive
  /\ IdleHandler

Resolve ==
  /\ rpc = "in"
  /\ result' = ExtractRun(input)
  /\ rpc' = "out"
  /\ UNCHANGED <<input, formatVars, deriveVars, handlerVars>>

NextResolve == Resolve

SpecResolve == InitResolve /\ [][NextResolve]_vars

----------------------------------------------------------------------------
(* Properties of the resolver (checked under SpecResolve) *)

AllDigits(s) == \A k \in 1..Len(s) : s[k] \in Digits
Canonical(s) == Len(s) = IdLen /\ AllDigits(s)
Failure == [kind |-> "null", value |-> <<>>]
Success(s) == [kind |-> "id", value |-> s]

\* s contains steamcommunity.com/profiles/ followed by 17 digits.
ContainsProfileForm(s) ==
  \E i \in 1..Len(s) :
    /\ i + Len(ProfilesLit) + IdLen - 1 <= Len(s)
    /\ SubSeq(s, i, i + Len(ProfilesLit) - 1) = ProfilesLit
    /\ Canonical(SubSeq(s, i + Len(ProfilesLit), i + Len(ProfilesLit) + IdLen - 1))

\* s contains steamcommunity.com/id/ followed by a non-empty alias.
ContainsAliasForm(s) ==
  \E i \in 1..Len(s) :
    /\ i + Len(IdLit) <= Len(s)
    /\ SubSeq(s, i, i + Len(IdLit) - 1) = IdLit
    /\ s[i + Len(IdLit)] # "/"

\* s is https://steamcommunity.com/id/<alias> or the same with a trailing
\* slash, the alias non-empty, without "/" and not a number.
AliasUrlShaped(s) ==
  \E a \in Aliases :
    /\ ~AllDigits(a)
    /\ s \in {HttpsLit \o IdLit \o a, HttpsLit \o IdLit \o a \o <<"/">>}

\* C1: every value extractSteamId returns as a success is a string of exactly
\* 17 decimal digits; every other outcome is the failure value null.
C1_SuccessIsCanonical ==
  rpc = "out" =>
    /\ result.kind \in {"id", "null"}
    /\ result.kind = "id" => Canonical(result.value)
    /\ result.kind = "null" => result.value = <<>>

\* C1: a success whose value is not the whole input (cut out of a URL).
C1_Witness ==
  rpc = "out" /\ result.kind = "id" /\ result.value # input

\* C2 as stated: an alias URL gives a failure that differs from the failure
\* returned for an input of no accepted form ("not a steam id").
C2_AliasFailureDistinct ==
  (rpc = "out" /\ AliasUrlShaped(input)) =>
    /\ result.kind # "id"
    /\ Returned(result) # extractSteamId(NotASteamId)

\* C2 amended: an alias URL (with or without the trailing slash) gives the
\* failure null, and so does an input of no accepted form: one failure value.
C2_AliasFailureIsNull ==
  rpc = "out" =>
    /\ AliasUrlShaped(input) => Returned(result) = Failure
    /\ input \in {NotASteamId, TooShort} => Returned(result) = Failure

\* C2: an alias URL with a trailing slash has been resolved to the failure.
C2_Witness ==
  /\ rpc = "out"
  /\ AliasUrlShaped(input)
  /\ input[Len(input)] = "/"
  /\ result.kind = "null"

\* C3 as stated: an input that is not 17 digits, holds no numeric-profile form
\* and holds the alias form never resolves to an id, whatever the alias.
C3_AliasNeverResolves ==
  (/\ rpc = "out"
   /\ ~Canonical(input)
   /\ ~ContainsProfileForm(input)
   /\ ContainsAliasForm(input)) => result.kind = "null"

\* C4: https://steamcommunity.com/profiles/<17 digits>, with or without a
\* trailing slash, resolves to exactly those 17 digits; and an input that holds
\* both the numeric-profile form and the alias form resolves to a 17-digit id,
\* found by the first pattern.
C4_ProfileUrlResolves ==
  rpc = "out" =>
    /\ \A d \in {DigitRun(IdLen), OtherId} :
         input \in {HttpsLit \o ProfilesLit \o d, HttpsLit \o ProfilesLit \o d \o <<"/">>}
           => Returned(result) = Success(d)
    /\ (ContainsProfileForm(input) /\ ContainsAliasForm(input)) =>
         /\ result.kind = "id"
         /\ Canonical(result.value)
         /\ result.tried = 1

\* C4: an input with the alias form first and the numeric-profile form after
\* it has been resolved to the id of the numeric-profile form.
C4_Witness ==
  /\ rpc = "out"
  /\ Len(input) > Len(HttpsLit \o IdLit)
  /\ SubSeq(input, 1, Len(HttpsLit \o IdLit)) = HttpsLit \o IdLit
  /\ ContainsProfileForm(input)
  /\ Returned(result) = Success(OtherId)

\* C5: a string of exactly 17 digits is returned unchanged, before any URL
\* pattern is tried.
C5_BareIdFastPath ==
  (rpc = "out" /\ Canonical(input)) =>
    /\ Returned(result) = Success(input)
    /\ result.tried = 0

\* C5: a bare 17-digit input has been resolved.
C5_Witness ==
  rpc = "out" /\ Canonical(input) /\ result.kind = "id"

----------------------------------------------------------------------------
(* The formatting helpers on their own: one call per behaviour *)

\* Every count up to MaxNum is formatted, and every whole hour up to MaxHours
\* with the seconds of SecondOffsets added.
MaxNum == 1200
MaxHours == 50
SecondOffsets == {0, 1, SecondsPerHour - 1}
Examples == {999999, 1000000, 1234567}

NumInputs ==
  (0..MaxNum) \cup Examples
  \cup {h * SecondsPerHour + r : h \in 0..MaxHours, r \in SecondOffsets}

InitFormat ==
  /\ num \in NumInputs
  /\ text = <<>>
  /\ fpc = "in"
  /\ IdleResolver
  /\ IdleDerive
  /\ IdleHandler

FormatNumber ==
  /\ fpc = "in"
  /\ text' = formatNumber(num)
  /\ fpc' = "number"
  /\ UNCHANGED <<num, resolverVars, deriveVars, handlerVars>>

FormatTime ==
  /\ fpc = "in"
  /\ text' = formatTime(num)
  /\ fpc' = "time"
  /\ UNCHANGED <<num, resolverVars, deriveVars, handlerVars>>

NextFormat == FormatNumber \/ FormatTime

SpecFormat == InitFormat /\ [][NextFormat]_vars

----------------------------------------------------------------------------
(* Properties of the formatting helpers (checked under SpecFormat) *)

RECURSIVE NumDigits(_)
NumDigits(n) == IF n < 10 THEN 1 ELSE 1 + NumDigits(n \div 10)

\* The decimal digits of n, most significant first.
Decimal(n) ==
  [k \in 1..NumDigits(n) |-> DigitChar[((n \div Pow10(NumDigits(n) - k)) % 10) + 1]]

\* s without its commas.
RECURSIVE WithoutCommas(_)
WithoutCommas(s) ==
  IF s = <<>> THEN <<>>
  ELSE (IF Head(s) = "," THEN <<>> ELSE <<Head(s)>>) \o WithoutCommas(Tail(s))

\* C7: with hours = floor(seconds / 3600), the duration is "<hours / 24>d
\* <hours mod 24>h" when hours >= 24 and "<hours>h" otherwise; 3600 is "1h",
\* 82800 is "23h", 90000 is "1d 1h"; no minutes or seconds are shown.
C7_DurationFormat ==
  fpc = "time" =>
    LET hours == num \div 3600
    IN  /\ hours >= 24 =>
             text = Decimal(hours \div 24) \o <<"d", " ">> \o Decimal(hours % 24) \o <<"h">>
        /\ hours < 24 => text = Decimal(hours) \o <<"h">>
        /\ num = 3600 => text = <<"1", "h">>
        /\ num = 82800 => text = <<"2", "3", "h">>
        /\ num = 90000 => text = <<"1", "d", " ", "1", "h">>
        /\ \A k \in 1..Len(text) : text[k] \in Digits \cup {"d", " ", "h"}

\* C7: exactly one day has been formatted, as days and hours.
C7_Witness ==
  fpc = "time" /\ num = 86400 /\ text = <<"1", "d", " ", "0", "h">>

\* C8: the grouped number is the decimal digits of n with a comma before every
\* group of three digits counted from the right, and nowhere else; without the
\* commas it is the decimal digits of n.
C8_ThousandsGrouping ==
  fpc = "number" =>
    LET d == Decimal(num)
        commas == (Len(d) - 1) \div 3
    IN  /\ WithoutCommas(text) = d
        /\ Len(text) = Len(d) + commas
        /\ \A k \in 1..Len(text) :
             (text[k] = ",") <=> ((Len(text) - k + 1) % 4 = 0)
        /\ num = 1 => text = <<"1">>
        /\ num = 999 => text = <<"9", "9", "9">>
        /\ num = 1000 => text = <<"1", ",", "0", "0", "0">>
        /\ num = 1234567 => text = <<"1", ",", "2", "3", "4", ",", "5", "6", "7">>

\* C8: a seven-digit number has been grouped with two commas.
C8_Witness ==
  fpc = "number" /\ num = 1000000 /\ text = <<"1", ",", "0", "0", "0", ",", "0", "0", "0">>

----------------------------------------------------------------------------
(* The stat lookup and the derivation on their own *)

\* Counter sets of at most MaxStats counters are enumerated (and the full ones).
MaxStats == 2
CounterValues == {0, 1500}

Range(f) == {f[i] : i \in DOMAIN f}

RECURSIVE IndexSetsUpTo(_)
IndexSetsUpTo(k) ==
  IF k = 0 THEN {{}}
  ELSE LET P == IndexSetsUpTo(k - 1)
       IN  P \cup {S \cup {i} : S \in P, i \in DOMAIN CounterNames}

\* The stats array holding the counters of indices S with the values v, in
\* the order of CounterNames (the names are unique, as the provider sends them).
RECURSIVE StatsFrom(_, _, _)
StatsFrom(S, v, i) ==
  IF i > Len(CounterNames) THEN <<>>
  ELSE (IF i \in S THEN <<[name |-> CounterNames[i], value |-> v[i]]>> ELSE <<>>)
       \o StatsFrom(S, v, i + 1)
StatsOf(S, v) == StatsFrom(S, v, 1)

\* total_kills 1500, total_deaths 1000, total_shots_hit 4500, total_shots_fired
\* 10000, total_matches_won 40, total_matches_played 100: nothing else present.
Scenario ==
  <<[name |-> "total_kills", value |-> 1500],
    [name |-> "total_deaths", value |-> 1000],
    [name |-> "total_shots_hit", value |-> 4500],
    [name |-> "total_shots_fired", value |-> 10000],
    [name |-> "total_matches_won", value |-> 40],
    [name |-> "total_matches_played", value |-> 100]>>

StatsInputs ==
  UNION {{StatsOf(S, v) : v \in [S -> CounterValues]} : S \in IndexSetsUpTo(MaxStats)}
  \cup {StatsOf(DOMAIN CounterNames, [i \in DOMAIN CounterNames |-> c]) :
          c \in CounterValues \cup {1234567}}
  \cup {Scenario}

LookupNames == Range(CounterNames) \cup {"total_kills_deagle"}

InitDerive ==
  /\ stats \in StatsInputs
  /\ name = ""
  /\ value = 0
  /\ embed = NoEmbed
  /\ dpc = "in"
  /\ IdleResolver
  /\ IdleFormat
  /\ IdleHandler

FindStat ==
  /\ dpc = "in"
  /\ \E n \in LookupNames :
       /\ name' = n
       /\ value' = findStat(stats, n)
  /\ dpc' = "found"
  /\ UNCHANGED <<stats, embed, resolverVars, formatVars, handlerVars>>

DeriveStats ==
  /\ dpc = "in"
  /\ embed' = Derive(stats)
  /\ dpc' = "derived"
  /\ UNCHANGED <<stats, name, value, resolverVars, formatVars, handlerVars>>

NextDerive == FindStat \/ DeriveStats

SpecDerive == InitDerive /\ [][NextDerive]_vars

----------------------------------------------------------------------------
(* Properties of the lookup and the derivation (checked under SpecDerive) *)

Present(st, n) == \E i \in 1..Len(st) : st[i].name = n

\* C6: findStat returns the stored value when the name is present and 0 when
\* it is absent; a counter stored as 0 and an absent counter both give 0.
C6_LookupDefaultsToZero ==
  dpc = "found" =>
    /\ \A i \in 1..Len(stats) : stats[i].name = name => value = stats[i].value
    /\ ~Present(stats, name) => value = 0

\* C6: a counter stored with a non-zero value has been looked up.
C6_Witness ==
  dpc = "found" /\ Present(stats, name) /\ value = 1500

\* The fields that show one counter through formatNumber.
CountFields ==
  {<<"general", "bombsPlanted", "total_planted_bombs">>,
   <<"general", "bombsDefused", "total_defused_bombs">>,
   <<"general", "damageDone", "total_damage_done">>,
   <<"general", "moneyEarned", "total_money_earned">>,
   <<"combat", "kills", "total_kills">>,
   <<"combat", "deaths", "total_deaths">>,
   <<"combat", "headshots", "total_kills_headshot">>,
   <<"match", "matchesPlayed", "total_matches_played">>,
   <<"match", "matchesWon", "total_matches_won">>,
   <<"match", "mvps", "total_mvps">>,
   <<"weapon", "shotsFired", "total_shots_fired">>,
   <<"weapon", "shotsHit", "total_shots_hit">>,
   <<"weapon", "knifeKills", "total_kills_knife">>,
   <<"weapon", "grenadeKills", "total_kills_hegrenade">>,
   <<"popular", "ak", "total_kills_ak47">>,
   <<"popular", "m4a1s", "total_kills_m4a1">>,
   <<"popular", "awp", "total_kills_awp">>,
   <<"popular", "glock", "total_kills_glock">>,
   <<"popular", "usps", "total_kills_hkp2000">>,
   <<"maps", "dust2", "total_wins_map_de_dust2">>,
   <<"maps", "inferno", "total_wins_map_de_inferno">>,
   <<"maps", "nuke", "total_wins_map_de_nuke">>,
   <<"maps", "vertigo", "total_wins_map_de_vertigo">>,
   <<"maps", "train", "total_wins_map_de_train">>}

GroupNames == {"general", "combat", "match", "weapon", "popular", "maps"}

\* C9: for every counter set the derivation raises no error and produces all
\* six groups, every field a non-empty string, and every count field whose
\* counter is absent shows "0".
C9_DeriverTotal ==
  dpc = "derived" =>
    /\ ~embed.threw
    /\ DOMAIN embed = GroupNames \cup {"threw"}
    /\ \A g \in GroupNames : \A f \in DOMAIN embed[g] : embed[g][f] # <<>>
    /\ \A c \in CountFields :
         ~Present(stats, c[3]) => embed[c[1]][c[2]] = <<"0">>

\* C9: a counter set with kills and no deaths (a zero denominator) has been
\* derived, the ratio shown as the division left it.
C9_Witness ==
  /\ dpc = "derived"
  /\ Present(stats, "total_kills")
  /\ ~Present(stats, "total_deaths")
  /\ ~embed.threw
  /\ embed.combat.kdRatio = <<"I", "n", "f", "i", "n", "i", "t", "y">>
  /\ embed.combat.accuracy = <<"N", "a", "N">>

----------------------------------------------------------------------------
(* The messageCreate handler, src/index.js:97-369, and httpsGet, 44-56 *)

UpperCase ==
  <<"A","B","C","D","E","F","G","H","I","J","K","L","M",
    "N","O","P","Q","R","S","T","U","V","W","X","Y","Z">>
LowerCase ==
  <<"a","b","c","d","e","f","g","h","i","j","k","l","m",
    "n","o","p","q","r","s","t","u","v","w","x","y","z">>

\* String.prototype.toLowerCase (on the letters A-Z).
toLowerCase(s) ==
  [k \in 1..Len(s) |->
     IF \E i \in 1..Len(UpperCase) : UpperCase[i] = s[k]
     THEN LowerCase[CHOOSE i \in 1..Len(UpperCase) : UpperCase[i] = s[k]]
     ELSE s[k]]

startsWith(s, lit) == MatchAt(lit, s, 1)

HelpLit == <<"!","h","e","l","p">>
CommandsLit == <<"!","c","o","m","m","a","n","d","s">>
Cs2statsLit == <<"!","c","s","2","s","t","a","t","s">>

WhiteSpace == {" ", "\t", "\n"}

\* String.prototype.trim
RECURSIVE trim(_)
trim(s) ==
  IF s = <<>> THEN s
  ELSE IF Head(s) \in WhiteSpace THEN trim(Tail(s))
  ELSE IF s[Len(s)] \in WhiteSpace THEN trim(SubSeq(s, 1, Len(s) - 1))
  ELSE s

\* content.split(" ").length
ArgsLength(s) == Cardinality({k \in 1..Len(s) : s[k] = " "}) + 1

\* content.split(" ").slice(1).join(" "): what follows the first space.
AfterFirstSpace(s) ==
  LET at == {k \in 1..Len(s) : s[k] = " "}
  IN  IF at = {} THEN <<>> ELSE SubSeq(s, Min(at) + 1, Len(s))

----------------------------------------------------------------------------
(* The messages and the response bodies tried *)

CommandArgs ==
  {DigitRun(IdLen),
   <<" ">> \o DigitRun(IdLen) \o <<" ">>,
   HttpsLit \o ProfilesLit \o DigitRun(IdLen) \o <<"/">>,
   HttpsLit \o IdLit \o <<"a">>,
   IdLit \o DigitRun(IdLen),
   NotASteamId,
   TooShort,
   <<>>}

Contents ==
  {HelpLit, <<"!","H","e","l","p">>, CommandsLit, HelpLit \o <<" ", "m", "e">>,
   <<"h", "i">>, Cs2statsLit, Cs2statsLit \o <<"x", " ">> \o DigitRun(IdLen)}
  \cup {Cs2statsLit \o <<" ">> \o a : a \in CommandArgs}

StatsBodies ==
  {HtmlBody, StatsBody(FALSE, <<>>), StatsBody(TRUE, <<>>), StatsBody(TRUE, Scenario)}

SummaryBodies ==
  {HtmlBody, SummaryBody(FALSE, <<>>), SummaryBody(TRUE, <<>>),
   SummaryBody(TRUE, <<"gaben">>)}

----------------------------------------------------------------------------
(* The steps of the handler and of the two requests *)

\* Lines 103-181: the handler up to its first await. A bot's message and a
\* message that is no command get no reply; !help and !commands get the help
\* embed; !cs2stats without an argument gets the usage hint; an input that
\* extractSteamId does not resolve gets the invalid-id message; otherwise the
\* first httpsGet is called and awaited.
MessageCreate ==
  /\ hpc = "start"
  /\ alive
  /\ IF authorBot
     THEN hpc' = "done" /\ UNCHANGED <<steamId, request, promise, replies>>
     ELSE IF toLowerCase(content) \in {HelpLit, CommandsLit}
     THEN /\ replies' = Append(replies, [kind |-> "help"])
          /\ hpc' = "done"
          /\ UNCHANGED <<steamId, request, promise>>
     ELSE IF ~startsWith(content, Cs2statsLit)
     THEN hpc' = "done" /\ UNCHANGED <<steamId, request, promise, replies>>
     ELSE IF ArgsLength(content) < 2
     THEN /\ replies' = Append(replies, [kind |-> "usage"])
          /\ hpc' = "done"
          /\ UNCHANGED <<steamId, request, promise>>
     ELSE LET id == extractSteamId(trim(AfterFirstSpace(content)))
          IN  /\ steamId' = id
              /\ IF id.kind = "null"
                 THEN /\ replies' = Append(replies, [kind |-> "invalid"])
                      /\ hpc' = "done"
                      /\ UNCHANGED <<request, promise>>
                 ELSE /\ request' = "sent"
                      /\ promise' = Pending
                      /\ hpc' = "await1"
                      /\ UNCHANGED replies
  /\ UNCHANGED <<content, authorBot, data, statsData, alive>>
  /\ UNCHANGED <<resolverVars, formatVars, deriveVars>>

\* Line 54: .on("error", reject): the request fails, the promise is rejected.
RequestError ==
  /\ alive
  /\ request = "sent"
  /\ request' = "failed"
  /\ promise' = Rejected
  /\ UNCHANGED <<content, authorBot, hpc, steamId, data, statsData, replies, alive>>
  /\ UNCHANGED <<resolverVars, formatVars, deriveVars>>

\* Lines 47-51: the response arrives and its chunks are added to data (the
\* body is taken whole). The first request is answered with a stats body, the
\* second with a summary body, either with an error page.
Response ==
  /\ alive
  /\ request = "sent"
  /\ \E b \in (IF hpc = "await1" THEN StatsBodies ELSE SummaryBodies) : data' = b
  /\ request' = "receiving"
  /\ UNCHANGED <<content, authorBot, hpc, steamId, promise, statsData, replies, alive>>
  /\ UNCHANGED <<resolverVars, formatVars, deriveVars>>

\* Line 52: resp.on("end", () => resolve(JSON.parse(data))). JSON.parse throws
\* inside the listener, outside the promise's executor: the exception is
\* uncaught, the process ends and the promise is never settled.
ResponseEnd ==
  /\ alive
  /\ request = "receiving"
  /\ request' = "ended"
  /\ IF ParseThrows(data)
     THEN alive' = FALSE /\ UNCHANGED promise
     ELSE promise' = Resolved(data) /\ UNCHANGED alive
  /\ UNCHANGED <<content, authorBot, hpc, steamId, data, statsData, replies>>
  /\ UNCHANGED <<resolverVars, formatVars, deriveVars>>

\* Lines 362-367: catch (error) { message.reply("Error fetching stats. ...") }
CatchReply == [kind |-> "error"]

\* Lines 179-184: the first await resumes. Resolved: statsData is kept and the
\* second httpsGet is called and awaited. Rejected: the catch block replies.
ResumeFirst ==
  /\ alive
  /\ hpc = "await1"
  /\ promise.state \in {"resolved", "rejected"}
  /\ IF promise.state = "resolved"
     THEN /\ statsData' = promise.value
          /\ request' = "sent"
          /\ promise' = Pending
          /\ hpc' = "await2"
          /\ UNCHANGED replies
     ELSE /\ replies' = Append(replies, CatchReply)
          /\ hpc' = "done"
          /\ UNCHANGED <<statsData, request, promise>>
  /\ UNCHANGED <<content, authorBot, steamId, data, alive>>
  /\ UNCHANGED <<resolverVars, formatVars, deriveVars>>

\* Lines 186-361 after the second await: summaryData.response.players[0] and
\* statsData.playerstats.stats (a TypeError when response or playerstats is
\* missing), the derived statistics, userSummary.personaname (a TypeError when
\* players is empty), then message.reply({embeds: [statsEmbed]}).
BuildReply(summaryData, sd) ==
  IF ~summaryData.response \/ ~sd.playerstats THEN CatchReply
  ELSE LET e == Derive(sd.stats)
       IN  IF e.threw \/ summaryData.players = <<>> THEN CatchReply
           ELSE [kind |-> "embed", title |-> summaryData.players[1], fields |-> e]

\* Lines 182-367: the second await resumes. Resolved: the embed is built and
\* sent, or the catch block replies. Rejected: the catch block replies.
ResumeSecond ==
  /\ alive
  /\ hpc = "await2"
  /\ promise.state \in {"resolved", "rejected"}
  /\ replies' = Append(replies,
                  IF promise.state = "resolved"
                  THEN BuildReply(promise.value, statsData) ELSE CatchReply)
  /\ hpc' = "done"
  /\ UNCHANGED <<content, authorBot, steamId, request, data, promise, statsData, alive>>
  /\ UNCHANGED <<resolverVars, formatVars, deriveVars>>

----------------------------------------------------------------------------
(* The bot: one message through the handler *)

Init ==
  /\ content \in Contents
  /\ authorBot \in BOOLEAN
  /\ hpc = "start"
  /\ steamId = Returned(NullResult(0))
  /\ request = "none"
  /\ data = NoBody
  /\ promise = NoPromise
  /\ statsData = NoBody
  /\ replies = <<>>
  /\ alive = TRUE
  /\ IdleResolver
  /\ IdleFormat
  /\ IdleDerive

Next ==
  \/ MessageCreate
  \/ RequestError
  \/ Response
  \/ ResponseEnd
  \/ ResumeFirst
  \/ ResumeSecond

Spec == Init /\ [][Next]_vars

----------------------------------------------------------------------------
(* Properties of the handler (checked under Spec) *)

\* The message is a !cs2stats command of a user.
IsCommand == ~authorBot /\ startsWith(content, Cs2statsLit)

\* Nothing more happens: the handler has returned, or the process has ended.
Stopped == hpc = "done" \/ ~alive

\* C10 as stated: every !cs2stats command of a user gets exactly one reply (the
\* usage hint, the invalid-id message, the stats embed or the error message) by
\* the time nothing more happens; a response that has ended has settled its
\* promise, rejected when the body does not parse; a rejected fetch leads to
\* the error reply; and no fetch is issued when the id does not resolve.
C10_EveryCommandAnswered ==
  /\ (IsCommand /\ Stopped) =>
       /\ Len(replies) = 1
       /\ replies[1].kind \in {"usage", "invalid", "embed", "error"}
  /\ request = "ended" =>
       promise.state = (IF ParseThrows(data) THEN "rejected" ELSE "resolved")
  /\ request = "failed" => promise.state = "rejected"
  /\ (hpc = "done" /\ promise.state = "rejected") =>
       replies = <<CatchReply>>
  /\ steamId.kind = "null" => request = "none"

====
